---------------------------- MODULE Spec2Model ----------------------------
(***************************************************************************)
(* A state-machine model of the three tutorial notebooks of the            *)
(* repository:                                                             *)
(*   "linreg"          src/tutorial_02_linreg.ipynb                        *)
(*   "classification"  src/tutorial_04_classification.ipynb                *)
(*   "neural"          src/unnamed/part_000  (neural-network regression)   *)
(* One behaviour is the execution of the cells of one notebook, top to     *)
(* bottom, possibly followed by a second complete run (kernel restart and  *)
(* run all), so that statements about two runs can be checked.             *)
(*                                                                         *)
(* Numbers.  Looked-up values are positive integers in model units (CTE in *)
(* 1e-6/K, moduli in 0.1 GPa, heats in kJ/mol) or the missing value NaN    *)
(* (None of the lookup, NaN of pandas/numpy).  np.array(..., dtype=float)  *)
(* converts them to binary floating point; the model keeps a float as an   *)
(* integer number of Unit-ths with a significand of Precision bits, and    *)
(* rounds to nearest, ties to even, where numpy does.                      *)
(***************************************************************************)
EXTENDS Integers, Sequences, FiniteSets, TLC

(***************************************************************************)
(* Bounds of the model.                                                    *)
(***************************************************************************)
\* Width of the significand of the model's floats (float64 has 53).
Precision == 4
\* Number of passes of one fit call (the notebooks have 300 and 2000).
EPOCHS == 3
\* Kernels of a layer are abstracted to one number in 0 .. WeightRange-1.
WeightRange == 3

(***************************************************************************)
(* Sequences and Python slices.                                            *)
(***************************************************************************)
Range(s) == {s[i] : i \in DOMAIN s}

Min(a, b) == IF a <= b THEN a ELSE b

Max(a, b) == IF a >= b THEN a ELSE b

\* Python's normalisation of a slice bound i for a sequence of length n:
\* a negative bound counts from the end, and bounds are clamped to 0 .. n.
PyBound(i, n) == IF i < 0 THEN Max(i + n, 0) ELSE Min(i, n)

\* s[:stop]
SliceTo(s, stop) == SubSeq(s, 1, PyBound(stop, Len(s)))

SliceFromOffByOne(s, start) == SubSeq(s, PyBound(start, Len(s)) + 2, Len(s))

\* s[start:]   (rows[-k:] is SliceFrom(rows, 0 - k), and -0 is 0)
SliceFrom(s, start) == SubSeq(s, PyBound(start, Len(s)) + 1, Len(s))

\* [s[x] for x in idx], idx a sequence of 0-based positions
Take(s, idx) == [i \in 1 .. Len(idx) |-> s[idx[i] + 1]]

\* The positions 0 .. n-1 in order (np.arange(n), range(n)).
Arange(n) == [i \in 1 .. n |-> i - 1]

Permutations0(n) ==
    {p \in [1 .. n -> 0 .. n - 1] : \A i, j \in 1 .. n : p[i] = p[j] => i = j}

\* Position (1-based) of x in s, 0 when absent.
IndexOf(s, x) == IF x \in Range(s) THEN CHOOSE i \in DOMAIN s : s[i] = x ELSE 0

(***************************************************************************)
(* Values and floating point.                                              *)
(***************************************************************************)
Num(v) == [nan |-> FALSE, v |-> v]

NaN == [nan |-> TRUE, v |-> 0]

\* One float unit: floats >= 1.0 are whole numbers of Unit-ths.
Unit == 2 ^ (Precision - 1)

RECURSIVE StepOf(_, _, _)
\* Spacing of the floats around a/b: the least power of two s with
\* a/b < s * 2^Precision.
StepOf(a, b, s) == IF a >= s * (2 ^ Precision) * b THEN StepOf(a, b, 2 * s) ELSE s

\* a/d rounded to the nearest integer, ties to even.
RoundDiv(a, d) ==
    LET q == a \div d
        r == a % d
    IN  IF 2 * r < d THEN q
        ELSE IF 2 * r > d THEN q + 1
        ELSE IF q % 2 = 0 THEN q ELSE q + 1

\* The float nearest to the rational a/b (a >= 0, b > 0, in Unit-ths).
Fl(a, b) == LET s == StepOf(a, b, 1) IN RoundDiv(a, b * s) * s

\* np.array(x, dtype=float) of one value
ToFloat(x) == IF x.nan THEN NaN ELSE Num(Fl(x.v * Unit, 1))

(***************************************************************************)
(* The notebooks' declarations.  The element and property lists are        *)
(* samples of the notebooks' lists that keep their order and the way the   *)
(* full list is concatenated.                                              *)
(***************************************************************************)
Notebooks == {"linreg", "classification", "neural"}

fcc_elements(n) == <<"Ag">>

bcc_elements(n) ==
    CASE n = "linreg" -> <<"Fe">>
      [] n = "classification" -> <<"Cs", "Rb">>
      [] OTHER -> <<"Cs">>

hcp_elements(n) == IF n = "classification" THEN <<"Zr">> ELSE <<"Ru">>

others(n) ==
    CASE n = "linreg" -> <<"Si">>
      [] n = "neural" -> <<"Ge">>
      [] OTHER -> << >>

\* elements = fcc_elements + ... as each notebook concatenates them
ElementList(n) ==
    CASE n = "linreg" -> fcc_elements(n) \o bcc_elements(n) \o hcp_elements(n) \o others(n)
      [] n = "classification" -> fcc_elements(n) \o bcc_elements(n) \o hcp_elements(n)
      [] OTHER -> fcc_elements(n) \o others(n) \o bcc_elements(n) \o hcp_elements(n)

\* The element lists of the notebooks in full: fcc_elements, bcc_elements,
\* hcp_elements and others as each notebook declares them.
DeclaredFcc(n) ==
    <<"Ag", "Al", "Au", "Cu", "Ir", "Ni", "Pb", "Pd", "Pt", "Rh", "Th", "Yb">>

DeclaredBcc(n) ==
    CASE n = "linreg" ->
           <<"Ba", "Cr", "Eu", "Fe", "Li", "Mn", "Mo", "Na", "Nb", "Ta", "V", "W">>
      [] n = "classification" ->
           <<"Ba", "Ca", "Cr", "Cs", "Eu", "Fe", "Li", "Mn", "Mo", "Na", "Nb", "Rb",
             "Ta", "V", "W">>
      [] OTHER ->
           <<"Ba", "Cr", "Cs", "Eu", "Fe", "Li", "Mn", "Mo", "Na", "Nb", "Rb", "Ta",
             "V", "W">>

DeclaredHcp(n) ==
    IF n = "classification"
    THEN <<"Be", "Cd", "Co", "Dy", "Er", "Gd", "Hf", "Ho", "Lu", "Mg", "Re",
           "Ru", "Sc", "Tb", "Ti", "Tl", "Tm", "Y", "Zn", "Zr">>
    ELSE <<"Be", "Ca", "Cd", "Co", "Dy", "Er", "Gd", "Hf", "Ho", "Lu", "Mg", "Re",
           "Ru", "Sc", "Tb", "Ti", "Tl", "Tm", "Y", "Zn", "Zr">>

DeclaredOthers(n) ==
    CASE n = "linreg" -> <<"Sb", "Sm", "Bi", "Ce", "Sn", "Si">>
      [] n = "neural" -> <<"Si", "Ge">>
      [] OTHER -> << >>

\* elements = fcc_elements + ... of the full lists
DeclaredElements(n) ==
    CASE n = "linreg" -> DeclaredFcc(n) \o DeclaredBcc(n) \o DeclaredHcp(n) \o DeclaredOthers(n)
      [] n = "classification" -> DeclaredFcc(n) \o DeclaredBcc(n) \o DeclaredHcp(n)
      [] OTHER -> DeclaredFcc(n) \o DeclaredOthers(n) \o DeclaredBcc(n) \o DeclaredHcp(n)

TrainingLiteralOfNeural(n) == 44

\* The literal of the training slices: [:45], [:40], [:44]
TrainingLiteral(n) ==
    CASE n = "linreg" -> 45 [] n = "classification" -> 40 [] OTHER -> 44

\* The literal of the testing slices: [-6:], [-7:], [-5:]
TestingLiteral(n) ==
    CASE n = "linreg" -> 6 [] n = "classification" -> 7 [] OTHER -> 5

Elements == UNION {Range(ElementList(n)) : n \in Notebooks}

querable_mendeleev(n) ==
    CASE n = "linreg" -> <<"melting_point">>
      [] n = "classification" -> <<"atomic_number", "evaporation_heat", "melting_point">>
      [] OTHER -> <<"atomic_number", "evaporation_heat">>

querable_pymatgen(n) ==
    IF n = "linreg" THEN <<"youngs_modulus">>
    ELSE <<"bulk_modulus", "youngs_modulus", "coefficient_of_linear_thermal_expansion">>

querable_values(n) == querable_mendeleev(n) \o querable_pymatgen(n)

\* querable_mendeleev + querable_pymatgen of the neural notebook in full:
\* the model's property lists are a sample of these.
DeclaredProperties ==
    <<"atomic_number", "atomic_volume", "boiling_point", "en_ghosh",
      "evaporation_heat", "heat_of_formation", "lattice_constant", "specific_heat">>
    \o <<"atomic_mass", "atomic_radius", "electrical_resistivity", "molar_volume",
         "bulk_modulus", "youngs_modulus", "average_ionic_radius", "density_of_solid",
         "coefficient_of_linear_thermal_expansion">>

Properties == UNION {Range(querable_values(n)) : n \in Notebooks}

\* The atomic number the lookup returns for an element.
AtomicNumber(e) ==
    CASE e = "Ag" -> 47 [] e = "Fe" -> 26 [] e = "Ru" -> 44 [] e = "Si" -> 14
      [] e = "Cs" -> 55 [] e = "Rb" -> 37 [] e = "Zr" -> 40 [] OTHER -> 32

\* The static patch list: df.iloc[df.index[df['atomic_number'] == z], col] = value
PatchList(n) ==
    LET common ==
          << [z |-> 55, col |-> "coefficient_of_linear_thermal_expansion", value |-> 97],
             [z |-> 37, col |-> "coefficient_of_linear_thermal_expansion", value |-> 90],
             [z |-> 44, col |-> "evaporation_heat", value |-> 595],
             [z |-> 40, col |-> "bulk_modulus", value |-> 940] >>
    IN  CASE n = "classification" -> common
          [] n = "neural" ->
               common \o << [z |-> 32, col |-> "bulk_modulus", value |-> 772],
                            [z |-> 32, col |-> "youngs_modulus", value |-> 1027] >>
          [] OTHER -> << >>

(***************************************************************************)
(* The two lookup collaborators (mendeleev, pymatgen) and the builder.     *)
(* A database d maps <<source, element, property>> to a number or NaN.     *)
(***************************************************************************)
Sources == {"mendeleev", "pymatgen"}

\* getattr(mendel.element(item), i) / getattr(pymat.Element(item), i)
Lookup(d, source, item, i) == d[<<source, item, i>>]

ElementValuesOneSource(d, n, item) ==
    [k \in 1 .. Len(querable_values(n)) |-> Lookup(d, "mendeleev", item, querable_values(n)[k])]

\* element_values of one pass of the builder loop: the mendeleev queries,
\* then the pymatgen queries.
ElementValues(d, n, item) ==
    [k \in 1 .. Len(querable_mendeleev(n)) |->
        Lookup(d, "mendeleev", item, querable_mendeleev(n)[k])]
    \o [k \in 1 .. Len(querable_pymatgen(n)) |->
        Lookup(d, "pymatgen", item, querable_pymatgen(n)[k])]

\* all_values after the loop "for item in elements"
BuildValues(d, n, elems) == [r \in 1 .. Len(elems) |-> ElementValues(d, n, elems[r])]

\* The label the classification loop appends for one item (none when the
\* item is in no list).
OneHot(n, item) ==
    IF item \in Range(fcc_elements(n)) THEN << <<1, 0, 0>> >>
    ELSE IF item \in Range(bcc_elements(n)) THEN << <<0, 1, 0>> >>
    ELSE IF item \in Range(hcp_elements(n)) THEN << <<0, 0, 1>> >>
    ELSE << >>

RECURSIVE BuildLabelsInListOrder(_, _, _)
BuildLabelsInListOrder(n, elems, k) ==
    IF k = 0 THEN << >>
    ELSE BuildLabelsInListOrder(n, elems, k - 1) \o OneHot(n, ElementList(n)[k])

RECURSIVE BuildLabels(_, _, _)
BuildLabels(n, elems, k) ==
    IF k = 0 THEN << >> ELSE BuildLabels(n, elems, k - 1) \o OneHot(n, elems[k])

\* pd.DataFrame(all_values, columns=querable_values)
DataFrame(rows, columns) == [columns |-> columns, rows |-> rows]

NoFrame == DataFrame(<< >>, << >>)

\* df.columns.get_loc(col), 1-based
GetLoc(d, col) == IndexOf(d.columns, col)

ApplyPatchIfMissing(d, p) ==
    LET zc == IndexOf(d.columns, "atomic_number")
        c  == IndexOf(d.columns, p.col)
    IN  [d EXCEPT !.rows =
            [r \in DOMAIN d.rows |->
                IF d.rows[r][zc] = Num(p.z) /\ d.rows[r][c].nan
                THEN [d.rows[r] EXCEPT ![c] = Num(p.value)]
                ELSE d.rows[r]]]

ApplyPatchToColumn(d, p) ==
    LET c == IndexOf(d.columns, p.col)
    IN  [d EXCEPT !.rows = [r \in DOMAIN d.rows |-> [d.rows[r] EXCEPT ![c] = Num(p.value)]]]

\* index = df.index[df['atomic_number'] == p.z]; df.iloc[index, get_loc(p.col)] = p.value
ApplyPatch(d, p) ==
    LET zc == GetLoc(d, "atomic_number")
        c  == GetLoc(d, p.col)
    IN  [d EXCEPT !.rows =
            [r \in DOMAIN d.rows |->
                IF d.rows[r][zc] = Num(p.z)
                THEN [d.rows[r] EXCEPT ![c] = Num(p.value)]
                ELSE d.rows[r]]]

RECURSIVE ApplyPatches(_, _, _)
\* The first k patch statements, in the order of the cell.
ApplyPatches(d, ps, k) ==
    IF k = 0 THEN d ELSE ApplyPatch(ApplyPatches(d, ps, k - 1), ps[k])

\* df[col].tolist()
ColumnList(d, col) == [r \in DOMAIN d.rows |-> d.rows[r][GetLoc(d, col)]]

\* Sequence s without its k-th entry.
Without(s, k) == SubSeq(s, 1, k - 1) \o SubSeq(s, k + 1, Len(s))

DropNothing(d, col) == d

\* df.drop([col], axis=1)
DropColumn(d, col) ==
    LET c == GetLoc(d, col)
    IN  DataFrame([r \in DOMAIN d.rows |-> Without(d.rows[r], c)], Without(d.columns, c))

(***************************************************************************)
(* Standard-score normalisation.  Rounding is modelled where numpy rounds  *)
(* in np.mean: in each addition of the accumulation down the column and in *)
(* the division by the count.  The deviations x - mean are kept exact, and *)
(* the standard deviation sqrt(ssq / n) and the quotient are kept as the   *)
(* numbers they are computed from.                                         *)
(***************************************************************************)
ColumnOf(rows, c) == [r \in 1 .. Len(rows) |-> rows[r][c]]

IsNumber(x) == ~x.nan

RECURSIVE FlSum(_, _)
\* np.add.reduce down a column: the first k entries added one by one.
FlSum(col, k) == IF k = 0 THEN 0 ELSE Fl(FlSum(col, k - 1) + col[k].v, 1)

\* np.mean (skipna FALSE) and np.nanmean (skipna TRUE) of one column
Mean(col, skipna) ==
    LET c == IF skipna THEN SelectSeq(col, IsNumber) ELSE col
    IN  IF Len(c) = 0 \/ \E i \in DOMAIN c : c[i].nan THEN NaN
        ELSE Num(Fl(FlSum(c, Len(c)), Len(c)))

RECURSIVE SumSq(_, _, _)
SumSq(c, m, k) == IF k = 0 THEN 0 ELSE SumSq(c, m, k - 1) + (c[k].v - m) * (c[k].v - m)

NaNStd == [nan |-> TRUE, ssq |-> 0, n |-> 0]

\* np.std / np.nanstd of one column: sqrt(ssq / n)
Std(col, skipna) ==
    LET c == IF skipna THEN SelectSeq(col, IsNumber) ELSE col
        m == Mean(col, skipna)
    IN  IF m.nan THEN NaNStd
        ELSE [nan |-> FALSE, ssq |-> SumSq(c, m.v, Len(c)), n |-> Len(c)]

NotANumber == [cls |-> "nan", num |-> 0, ssq |-> 0, n |-> 0]

Infinite(sign) == [cls |-> "inf", num |-> sign, ssq |-> 0, n |-> 0]

ScaleWithoutCentering(x, m, s) ==
    IF x.nan \/ m.nan \/ s.nan THEN NotANumber
    ELSE IF s.ssq = 0 THEN NotANumber
         ELSE [cls |-> "finite", num |-> x.v, ssq |-> s.ssq, n |-> s.n]

\* (x - m) / s for one entry, with IEEE division by zero
Scale(x, m, s) ==
    IF x.nan \/ m.nan \/ s.nan THEN NotANumber
    ELSE IF s.ssq = 0
         THEN IF x.v = m.v THEN NotANumber
              ELSE Infinite(IF x.v > m.v THEN 1 ELSE 0 - 1)
         ELSE [cls |-> "finite", num |-> x.v - m.v, ssq |-> s.ssq, n |-> s.n]

\* (values - mean) / std, broadcast over the rows
ScaleRows(rows, m, s) ==
    [r \in 1 .. Len(rows) |-> [c \in 1 .. Len(rows[r]) |-> Scale(rows[r][c], m[c], s[c])]]

\* np.mean(train_values, axis=0) / np.nanmean(train_values, axis=0) of an
\* array with `width` columns
MeanOf(rows, width, skipna) == [c \in 1 .. width |-> Mean(ColumnOf(rows, c), skipna)]

\* np.std(train_values, axis=0) / np.nanstd(train_values, axis=0)
StdOf(rows, width, skipna) == [c \in 1 .. width |-> Std(ColumnOf(rows, c), skipna)]

StatisticsOfAllRows(values, count, width, skipna) ==
    [mean |-> MeanOf(values, width, skipna), std |-> StdOf(values, width, skipna)]

\* train_values = all_values[:count]; mean = np.mean(train_values, axis=0);
\* std = np.std(train_values, axis=0)
Statistics(values, count, width, skipna) ==
    LET train == SliceTo(values, count)
    IN  [mean |-> MeanOf(train, width, skipna), std |-> StdOf(train, width, skipna)]

(***************************************************************************)
(* The network and Keras' fit loop.  The kernels of a layer are one number *)
(* and a pass is a deterministic function of the weights and the batch:    *)
(* what the pipeline's claims need of the library is which initial values  *)
(* are drawn from a seed, how many passes run, and what is logged.         *)
(***************************************************************************)
\* seed of kernel_init = initializers.RandomNormal(seed=...)
KernelSeed(n) == IF n = "neural" THEN 0 ELSE 14

\* For each Dense layer, whether it is given kernel_initializer=kernel_init.
LayerSeeded(n) == IF n = "neural" THEN <<TRUE, TRUE, TRUE>> ELSE <<TRUE, FALSE>>

\* The values the seeded initializer gives its l-th use.
SeededKernel(seed, l) == (seed + l) % WeightRange

\* The weights model.add(Dense(...)) can create: a layer with the seeded
\* initializer gets its value, a layer left with the default initializer
\* (glorot_uniform, no seed) draws from the process-wide generator.
InitialWeights(n) ==
    {w \in [1 .. Len(LayerSeeded(n)) -> 0 .. WeightRange - 1] :
        \A l \in 1 .. Len(LayerSeeded(n)) :
            LayerSeeded(n)[l] => w[l] = SeededKernel(KernelSeed(n), l)}

\* validation_split=0.1: Keras holds out the rows from int(n * 0.9) on.
SplitAt(rows) == (Len(rows) * 9) \div 10

FitRows(rows) == SliceTo(rows, SplitAt(rows))

ValRowsAll(rows) == rows

ValRows(rows) == SliceFrom(rows, SplitAt(rows))

RECURSIVE Encode(_, _)
Encode(w, k) == IF k = 0 THEN 0 ELSE Encode(w, k - 1) * WeightRange + w[k]

\* One parameter update on the batch x.
TrainStep(w, x) == [l \in DOMAIN w |-> (w[l] + Len(x) + l) % WeightRange]

Loss(w, x) == Encode(w, Len(w)) + Len(x)

\* metrics=['mae'] (the loss again) or metrics=['accuracy']
Metric(n, w, x) ==
    IF n = "neural" THEN Loss(w, x) ELSE (Encode(w, Len(w)) + 1) % (Len(x) + 1)

TrainKeys(n) == IF n = "neural" THEN {"loss", "mae"} ELSE {"loss", "accuracy"}

ValKeys(n) == IF n = "neural" THEN {"val_loss", "val_mae"} ELSE {"val_loss", "val_accuracy"}

\* logs of one pass: the training metrics of the batch, computed with the
\* weights w before its update, and the validation metrics computed with
\* the updated weights w2.
EpochLogs(n, w, w2, x, vx) ==
    [k \in TrainKeys(n) \cup ValKeys(n) |->
        CASE k = "loss" -> Loss(w, x)
          [] k = "val_loss" -> Loss(w2, vx)
          [] k \in TrainKeys(n) -> Metric(n, w, x)
          [] OTHER -> Metric(n, w2, vx)]

BatchSizeOne(rows) == 1

\* batch_size=train_values.shape[0]
BatchSize(rows) == Len(rows)

RECURSIVE Batches(_, _)
\* The batches of one pass over the rows x: consecutive groups of `size` rows.
Batches(x, size) ==
    IF Len(x) = 0 \/ size < 1 THEN << >>
    ELSE <<SubSeq(x, 1, Min(size, Len(x)))>> \o Batches(SubSeq(x, size + 1, Len(x)), size)

RECURSIVE TrainOnBatches(_, _, _)
\* The weights after one update per batch, for the first k batches.
TrainOnBatches(w, batches, k) ==
    IF k = 0 THEN w ELSE TrainStep(TrainOnBatches(w, batches, k - 1), batches[k])

\* model.predict on one row: a value determined by the parameters and the row
PredictRow(w, row) == [weights |-> w, row |-> row]

\* model.predict(x): one prediction per row of x, in the order of the rows
Predict(w, x) == [i \in 1 .. Len(x) |-> PredictRow(w, x[i])]

ConcatenateSwapped(a, b) == b \o a

\* np.concatenate((a, b), axis=0) / np.vstack((a, b))
Concatenate(a, b) == a \o b

EvaluateByTraining(n, w, x) ==
    [weights |-> TrainStep(w, x), loss |-> Loss(w, x), metric |-> Metric(n, w, x)]

\* model.evaluate(x, y, verbose=0): the parameters it leaves and [loss, metric]
Evaluate(n, w, x) == [weights |-> w, loss |-> Loss(w, x), metric |-> Metric(n, w, x)]

\* model.save(path): the parameters written to the file
SaveModel(w) == [weights |-> w]

\* linear_model.LinearRegression().fit(x, y): coefficients determined by x and y
LinearRegressionFit(x, y) == [x_train |-> x, y_train |-> y]

\* EPOCHS = 300 / EPOCHS = 2000: the epochs argument of model.fit
EpochsArgument(n) == IF n = "classification" THEN 300 ELSE 2000

\* The passes the model follows: the first EPOCHS of those fit is asked for.
Passes(n) == Min(EpochsArgument(n), EPOCHS)

\* keras.callbacks.History: on_train_begin, then on_epoch_end per pass
NewHistory(n) == [epoch |-> << >>, history |-> [k \in TrainKeys(n) \cup ValKeys(n) |-> << >>]]

HistoryKeepsLast(h, epoch, logs) ==
    [epoch |-> <<epoch>>, history |-> [k \in DOMAIN h.history |-> <<logs[k]>>]]

HistoryOnEpochEnd(h, epoch, logs) ==
    [epoch |-> Append(h.epoch, epoch),
     history |-> [k \in DOMAIN h.history |-> Append(h.history[k], logs[k])]]

\* PrintEpNum.on_epoch_end writes "Current Epoch: " + str(epoch+1)
PrintEpNum(out, epoch, logs) == Append(out, epoch + 1)

StopOnValidationLoss(stop, logs) == stop \/ logs["val_loss"] >= logs["loss"]

\* model.stop_training after the callbacks of a pass: callbacks=[PrintEpNum()]
\* holds no callback that sets it.
StopTraining(stop, logs) == stop

(***************************************************************************)
(* State.                                                                  *)
(***************************************************************************)
VARIABLES
    nb,              \* the notebook that is run
    db,              \* what the two lookup collaborators answer
    order,           \* the row permutation `order` of the neural notebook
    training_count,  \* rows[:training_count]   (44, 40, 45 in the notebooks)
    testing_count,   \* rows[-testing_count:]   (5, 7, 6)
    elements, all_values, all_labels, df, csv,
    train_values, test_values, train_labels, test_labels,
    labeled_elements, mean, std,
    init_weights, weights, epoch, history, printed, stop_training,
    calls,           \* the calls of the model's methods so far: method and rows
    updates,         \* the batch of every parameter update of the fit call
    io,              \* the file operations of the run so far: operation and file
    saved,           \* the model file
    scores,          \* what evaluate returned
    test_predictions, predictions,
    plot_table,      \* the result table of the classification notebook
    class_prediction, \* FCC_prediction, BCC_prediction, HCP_prediction
    sort_order,      \* `order` of the classification notebook's chart cell
    figure,          \* the traces of the chart
    pc,              \* the cell to execute next
    run,             \* 1 in the first run of the notebook, 2 in the second
    prev             \* what the first run left, for statements about two runs

config == <<nb, db, order, training_count, testing_count>>

data == <<elements, all_values, all_labels, df, csv>>

parts == <<train_values, test_values, train_labels, test_labels, labeled_elements, mean, std>>

net == <<init_weights, weights, epoch, history, printed, stop_training>>

log == <<calls, updates, io>>

post == <<saved, scores, test_predictions, predictions, plot_table, class_prediction,
          sort_order, figure>>

vars == <<config, data, parts, net, log, post, pc, run, prev>>

(***************************************************************************)
(* Inputs: what the lookups answer.  The atomic number of an element is    *)
(* always known to the lookup; every other answer may be a number or       *)
(* missing.                                                                *)
(***************************************************************************)
\* At most this many cells of the base database are made missing.
MaxMissing == 2

\* The arrays given to regression as a function have up to MaxRows rows.
MaxRows == 2

PropertyOffset(p) ==
    CASE p = "atomic_number" -> 0
      [] p = "evaporation_heat" -> 100
      [] p = "melting_point" -> 200
      [] p = "bulk_modulus" -> 300
      [] p = "youngs_modulus" -> 400
      [] OTHER -> 500

\* A database in which every value is known and no two cells of a column
\* agree; the two sources disagree on every property but the atomic number.
BaseDb ==
    [k \in Sources \X Elements \X Properties |->
        Num(AtomicNumber(k[2]) + PropertyOffset(k[3])
            + (IF k[1] = "pymatgen" /\ k[3] # "atomic_number" THEN 7 ELSE 0))]

\* The cells the builder of notebook n asks for, the atomic number excepted.
Cells(n) ==
    {k \in Sources \X Range(ElementList(n)) \X (Properties \ {"atomic_number"}) :
        \/ k[1] = "mendeleev" /\ k[3] \in Range(querable_mendeleev(n))
        \/ k[1] = "pymatgen" /\ k[3] \in Range(querable_pymatgen(n))}

\* The base database with up to MaxMissing asked-for cells missing.
DbMissing(n) ==
    {[k \in DOMAIN BaseDb |-> IF k \in S THEN NaN ELSE BaseDb[k]] :
        S \in {T \in SUBSET Cells(n) : Cardinality(T) <= MaxMissing}}

\* The base database with every evaporation_heat of the notebook's elements
\* drawn from three answers: two numbers, so that the column can be constant
\* over the training rows, and the missing value.
DbColumn(n) ==
    {[k \in DOMAIN BaseDb |->
        IF k[1] = "mendeleev" /\ k[3] = "evaporation_heat" /\ k[2] \in Range(ElementList(n))
        THEN f[k[2]] ELSE BaseDb[k]] :
        f \in [Range(ElementList(n)) -> {NaN, Num(13), Num(14)}]}

\* The pairs (training_count, testing_count) with
\* training_count + testing_count <= row count.
Counts(n) ==
    {c \in (0 .. Len(ElementList(n))) \X (0 .. Len(ElementList(n))) :
        c[1] + c[2] <= Len(ElementList(n))}

\* The notebooks' split scaled to the sample: all rows but the last train.
DefaultCounts(n) == {<<Len(ElementList(n)) - 1, 1>>}

\* order = np.arange(49), as the cell is written
DefaultOrder(n) == Arange(Len(ElementList(n)))

NoPrev(n) ==
    [valid |-> FALSE, train |-> << >>, test |-> << >>, init_weights |-> << >>,
     history |-> NewHistory(n)]

\* A fresh kernel: nothing is defined yet.
Fresh ==
    /\ elements = << >> /\ all_values = << >> /\ all_labels = << >>
    /\ df = NoFrame /\ csv = NoFrame
    /\ train_values = << >> /\ test_values = << >>
    /\ train_labels = << >> /\ test_labels = << >>
    /\ labeled_elements = << >> /\ mean = << >> /\ std = << >>
    /\ init_weights = << >> /\ weights = << >> /\ epoch = 0
    /\ history = NewHistory(nb) /\ printed = << >> /\ stop_training = FALSE
    /\ calls = << >> /\ updates = << >> /\ io = << >>
    /\ saved = << >> /\ scores = << >>
    /\ test_predictions = << >> /\ predictions = << >> /\ figure = << >>
    /\ plot_table = << >> /\ class_prediction = << >> /\ sort_order = << >>
    /\ pc = "import"

\* A notebook of nbs with, per notebook, the sets its collaborators' answers,
\* its `order` and its two split literals are drawn from.
InitWith(nbs, dbs, orders, cnts) ==
    /\ nb \in nbs
    /\ db \in dbs[nb]
    /\ order \in orders[nb]
    /\ \E c \in cnts[nb] : training_count = c[1] /\ testing_count = c[2]
    /\ Fresh
    /\ run = 1
    /\ prev = NoPrev(nb)

(***************************************************************************)
(* The cells.                                                              *)
(***************************************************************************)
\* random.Random(1).shuffle(elements): the permutation generator 1 gives a
\* list of four entries.
SeededShuffle(s) == Take(s, <<3, 0, 2, 1>>)

\* shuffle(elements) of module random, which nothing seeds: any arrangement
Shuffles(s) == {Take(s, p) : p \in Permutations0(Len(s))}

ShuffledListsUnseeded(n, s) == IF n = "neural" THEN {s} ELSE Shuffles(s)

\* The element lists the first cell can leave: shuffle(elements) in the
\* linear-regression notebook, random.Random(1).shuffle(elements) in the
\* classification notebook, no shuffle in the neural notebook.
ShuffledLists(n, s) ==
    CASE n = "linreg" -> Shuffles(s)
      [] n = "classification" -> {SeededShuffle(s)}
      [] OTHER -> {s}

LabelColumnBeforePatches(frame, patched) == ColumnList(frame, "youngs_modulus")

\* all_labels = df['youngs_modulus'].tolist(), after the patch statements:
\* `frame` is the table as the lookups filled it, `patched` the table then.
LabelColumn(frame, patched) == ColumnList(patched, "youngs_modulus")

\* The first code cell: the element and property lists and the shuffle.  In
\* the linear-regression notebook the same cell also runs the lookup loop;
\* its lists data_melting_point and data_youngs_modulus are the two columns
\* of all_values.
ImportCell ==
    /\ pc = "import"
    /\ elements' \in ShuffledLists(nb, ElementList(nb))
    /\ all_values' = IF nb = "linreg" THEN BuildValues(db, nb, elements') ELSE all_values
    /\ pc' = IF nb = "linreg" THEN "partition" ELSE "build"
    /\ UNCHANGED <<config, all_labels, df, csv, parts, net, log, post, run, prev>>

\* A file operation of the notebook: the method and the path it is given
FileOp(op, path) == [op |-> op, path |-> path]

ToCsvBeforePatches(frame, patched) == frame

\* df.to_csv(os.path.expanduser('~/tuto_data.csv')), the statement after the
\* last patch: the header and the rows the file receives
ToCsv(frame, patched) == patched

\* The builder cell: the lookup loop, the data frame and the patches; the
\* neural notebook then writes the snapshot, takes the labels from the
\* youngs_modulus column and drops it.
BuildCell ==
    /\ pc = "build"
    /\ LET values == BuildValues(db, nb, elements)
           frame == DataFrame(values, querable_values(nb))
           patched == ApplyPatches(frame, PatchList(nb), Len(PatchList(nb)))
       IN  /\ all_values' = values
           /\ IF nb = "classification"
              THEN /\ all_labels' = BuildLabels(nb, elements, Len(elements))
                   /\ df' = patched
                   /\ csv' = csv
                   /\ io' = io
              ELSE /\ csv' = ToCsv(frame, patched)
                   /\ io' = Append(io, FileOp("to_csv", "~/tuto_data.csv"))
                   /\ all_labels' = LabelColumn(frame, patched)
                   /\ df' = DropColumn(patched, "youngs_modulus")
    /\ pc' = "partition"
    /\ UNCHANGED <<config, elements, parts, net, calls, updates, post, run, prev>>

\* np.array(rows, dtype=float)
FloatArray(rows) == [r \in DOMAIN rows |-> [c \in DOMAIN rows[r] |-> ToFloat(rows[r][c])]]

\* np.array(list, dtype=float) of a list of numbers
FloatVector(v) == [r \in DOMAIN v |-> ToFloat(v[r])]

\* The partition cell of the linear-regression notebook:
\* melt_train = data_melting_point[:45], melt_test = data_melting_point[-6:],
\* young_train, young_test alike, each reshaped to one column.
PartitionLinreg ==
    LET melt  == [r \in DOMAIN all_values |-> <<ToFloat(all_values[r][1])>>]
        young == [r \in DOMAIN all_values |-> <<ToFloat(all_values[r][2])>>]
    IN  /\ train_values' = SliceTo(melt, training_count)
        /\ test_values' = SliceFrom(melt, 0 - testing_count)
        /\ train_labels' = SliceTo(young, training_count)
        /\ test_labels' = SliceFrom(young, 0 - testing_count)
        /\ UNCHANGED <<data, labeled_elements, mean, std>>
        /\ pc' = "predict"

LabelsKeptInPlace(labels, ord) == labels

LabeledElementsFromFront(elems, ord, count) == Take(elems, SliceTo(ord, count))

\* labeled_elements = [elements[x] for x in order[-5:]]
LabeledElements(elems, ord, count) == Take(elems, SliceFrom(ord, 0 - count))

NormalizeWithLabels(n, features, labels, m, s) ==
    [values |-> ScaleRows(features, m, s),
     labels |-> IF n = "neural"
                THEN [i \in DOMAIN labels |-> Scale(labels[i], m[1], s[1])]
                ELSE labels]

\* train_values = (train_values - mean) / std: what the statement leaves in
\* the feature array and in the label array of the partition
Normalize(n, features, labels, m, s) ==
    [values |-> ScaleRows(features, m, s), labels |-> labels]

\* all_labels = all_labels[order]
ReorderLabels(labels, ord) == Take(labels, ord)

\* The partition and normalisation cell of the two network notebooks.  The
\* neural notebook reorders values, labels and element names by `order`
\* and uses np.mean/np.std; the classification notebook has no reordering
\* and uses np.nanmean/np.nanstd.  all_values is rebuilt from df; all_labels
\* and elements are the kernel's: a list of numbers when the builder cell
\* left them, the float array (np.array leaves its values) and the list this
\* cell left when it is executed again.
PartitionNetwork ==
    LET neural == nb = "neural"
        rows   == FloatArray([x \in 1 .. Len(all_values) |-> df.rows[x]])
        labels == IF neural /\ pc = "partition" THEN FloatVector(all_labels) ELSE all_labels
        values2 == IF neural THEN Take(rows, order) ELSE rows
        labels2 == IF neural THEN ReorderLabels(labels, order) ELSE labels
        train  == SliceTo(values2, training_count)
        test   == SliceFrom(values2, 0 - testing_count)
        stats  == Statistics(values2, training_count, Len(df.columns), ~neural)
        m      == stats.mean
        sd     == stats.std
    IN  /\ all_values' = values2
        /\ all_labels' = labels2
        /\ train_labels' = Normalize(nb, train, SliceTo(labels2, training_count), m, sd).labels
        /\ test_labels' = Normalize(nb, test, SliceFrom(labels2, 0 - testing_count), m, sd).labels
        /\ labeled_elements' =
             IF neural THEN LabeledElements(elements, order, testing_count)
             ELSE labeled_elements
        /\ elements' = IF neural THEN Take(elements, order) ELSE elements
        /\ mean' = m
        /\ std' = sd
        /\ train_values' = Normalize(nb, train, SliceTo(labels2, training_count), m, sd).values
        /\ test_values' = Normalize(nb, test, SliceFrom(labels2, 0 - testing_count), m, sd).values
        /\ UNCHANGED <<df, csv>>
        /\ pc' = IF pc = "partition" THEN "model" ELSE "reexecuted"

PartitionCell ==
    /\ pc = "partition"
    /\ IF nb = "linreg" THEN PartitionLinreg ELSE PartitionNetwork
    /\ UNCHANGED <<config, net, log, post, run, prev>>

\* The partition cell of the neural notebook executed a second time in the
\* same kernel, right after its first execution.
PartitionCellAgain ==
    /\ pc = "model"
    /\ nb = "neural"
    /\ PartitionNetwork
    /\ UNCHANGED <<config, net, log, post, run, prev>>

\* The model cell: Sequential(), the Dense layers, compile.
DefineModelCell ==
    /\ pc = "model"
    /\ init_weights' \in InitialWeights(nb)
    /\ weights' = init_weights'
    /\ epoch' = 0
    /\ history' = NewHistory(nb)
    /\ printed' = << >>
    /\ stop_training' = FALSE
    /\ pc' = "fit"
    /\ UNCHANGED <<config, data, parts, log, post, run, prev>>

\* One pass of model.fit(train_values, train_labels,
\* batch_size=train_values.shape[0], epochs=EPOCHS, validation_split=0.1,
\* callbacks=[PrintEpNum()]): the update on the one batch, then the
\* callbacks.  Keras raises before the first pass when the split leaves no
\* row to train on.
FitEpoch ==
    /\ pc = "fit"
    /\ epoch < Passes(nb)
    /\ ~stop_training
    /\ LET x    == FitRows(train_values)
           vx   == ValRows(train_values)
           batches == Batches(x, BatchSize(train_values))
           w2   == TrainOnBatches(weights, batches, Len(batches))
           logs == EpochLogs(nb, weights, w2, x, vx)
       IN  IF Len(x) = 0
           THEN /\ pc' = "error"
                /\ UNCHANGED <<net, log>>
           ELSE /\ weights' = w2
                /\ updates' = updates \o batches
                /\ calls' = IF epoch = 0
                            THEN Append(calls, [op |-> "fit", x |-> x, val |-> vx,
                                                epochs |-> EpochsArgument(nb)])
                            ELSE calls
                /\ history' = HistoryOnEpochEnd(history, epoch, logs)
                /\ printed' = PrintEpNum(printed, epoch, logs)
                /\ stop_training' = StopTraining(stop_training, logs)
                /\ epoch' = epoch + 1
                /\ pc' = pc
                /\ UNCHANGED <<init_weights, io>>
    /\ UNCHANGED <<config, data, parts, post, run, prev>>

\* model.fit returns the History object.
FitReturn ==
    /\ pc = "fit"
    /\ epoch >= Passes(nb) \/ stop_training
    /\ pc' = IF nb = "neural" THEN "save" ELSE "evaluate"
    /\ UNCHANGED <<config, data, parts, net, log, post, run, prev>>

\* A call of a method of the model on the rows x.
Call(op, x) == [op |-> op, x |-> x, val |-> << >>]

\* model.save(os.path.expanduser('~/model.h5')), neural notebook only
SaveCell ==
    /\ pc = "save"
    /\ saved' = SaveModel(weights)
    /\ io' = Append(io, FileOp("save", "~/model.h5"))
    /\ pc' = "evaluate"
    /\ UNCHANGED <<config, data, parts, net, calls, updates, scores, test_predictions,
                   predictions, plot_table, class_prediction, sort_order, figure, run, prev>>

\* The testing cell: model.evaluate on the testing set; the classification
\* notebook evaluates the training set first.
EvaluateCell ==
    /\ pc = "evaluate"
    /\ LET on_train == Evaluate(nb, weights, train_values)
           w1 == IF nb = "classification" THEN on_train.weights ELSE weights
           on_test == Evaluate(nb, w1, test_values)
       IN  /\ weights' = on_test.weights
           /\ scores' = IF nb = "classification"
                        THEN << <<on_train.loss, on_train.metric>>,
                                <<on_test.loss, on_test.metric>> >>
                        ELSE << <<on_test.loss, on_test.metric>> >>
           /\ calls' = IF nb = "classification"
                       THEN calls \o <<Call("evaluate", train_values),
                                       Call("evaluate", test_values)>>
                       ELSE Append(calls, Call("evaluate", test_values))
    /\ pc' = "predict"
    /\ UNCHANGED <<config, data, parts, init_weights, epoch, history, printed,
                   stop_training, updates, io, saved, test_predictions, predictions,
                   plot_table, class_prediction, sort_order, figure, run, prev>>

\* The number of columns of an array with at least one row, or `width` for
\* an array without rows (its shape is (0, width)).
WidthOr(rows, width) == IF Len(rows) = 0 THEN width ELSE Len(rows[1])

RegressionOnAllRows(x_train, x_test, y_train, y_test) ==
    LET full_x == Concatenate(x_train, x_test)
        full_y == Concatenate(y_train, y_test)
        model  == LinearRegressionFit(full_x, full_y)
    IN  [model |-> model,
         predictions |-> Predict(model, full_x),
         calls |-> <<Call("fit", full_x), Call("predict", full_x)>>,
         raised |-> FALSE]

\* regression(x_train, x_test, y_train, y_test): the model the call holds,
\* what it returns, the calls of the model's methods it makes, and whether
\* it raises.  fit raises on no row and on x and y of different length,
\* np.concatenate on arrays of different width, mean_squared_error on
\* full_y and predictions of different length; nothing in the function
\* compares the shapes before.
Regression(x_train, x_test, y_train, y_test) ==
    LET fitted == Len(x_train) > 0 /\ Len(x_train) = Len(y_train)
        joined == /\ WidthOr(x_test, Len(x_train[1])) = Len(x_train[1])
                  /\ WidthOr(y_test, Len(y_train[1])) = Len(y_train[1])
        model  == LinearRegressionFit(x_train, y_train)
        full_x == Concatenate(x_train, x_test)
        full_y == Concatenate(y_train, y_test)
    IN  IF ~fitted
        THEN [model |-> << >>, predictions |-> << >>,
              calls |-> <<Call("fit", x_train)>>, raised |-> TRUE]
        ELSE IF ~joined
        THEN [model |-> model, predictions |-> << >>,
              calls |-> <<Call("fit", x_train)>>, raised |-> TRUE]
        ELSE [model |-> model,
              predictions |-> Predict(model, full_x),
              calls |-> <<Call("fit", x_train), Call("predict", full_x)>>,
              raised |-> Len(full_y) # Len(full_x)]

\* predictions = regression(x_train, x_test, y_train, y_test) of the
\* linear-regression notebook, called with the melting points and the
\* Young's moduli; a call that raises leaves the caller's predictions.
RegressionCall ==
    LET r == Regression(train_values, test_values, train_labels, test_labels)
    IN  /\ weights' = r.model
        /\ predictions' = IF r.raised THEN predictions ELSE r.predictions
        /\ calls' = calls \o r.calls
        /\ pc' = IF r.raised THEN "error" ELSE "plot"
        /\ UNCHANGED <<data, test_predictions, plot_table>>

\* The prediction cell of the neural notebook.
PredictNeural ==
    LET values == Concatenate(train_values, test_values)
    IN  /\ test_predictions' = Predict(weights, test_values)
        /\ predictions' = Predict(weights, values)
        /\ calls' = calls \o <<Call("predict", test_values), Call("predict", values)>>
        /\ pc' = "plot"
        /\ UNCHANGED <<data, weights, plot_table>>

\* The three outputs of the softmax layer for one predicted row: values
\* determined by the parameters and the row.
Probabilities(p) ==
    LET key == IF Len(p.row) > 0 /\ p.row[1].cls = "finite" THEN p.row[1].num ELSE 0
    IN  [k \in 1 .. 3 |-> (Encode(p.weights, Len(p.weights)) + k * key) % 3]

ArgMin(v) ==
    (CHOOSE i \in DOMAIN v :
        \A j \in DOMAIN v : v[i] <= v[j] /\ (j < i => v[i] < v[j])) - 1

\* np.argmax(v): the 0-based position of the first greatest entry
ArgMax(v) ==
    (CHOOSE i \in DOMAIN v :
        \A j \in DOMAIN v : v[j] <= v[i] /\ (j < i => v[j] < v[i])) - 1

\* What one pass of the decoding loop appends to a list for the vector v:
\* if (np.argmax(v) == 0): append("FCC"), then the same for 1 and 2.
Appended(v) ==
    (IF ArgMax(v) = 0 THEN <<"FCC">> ELSE << >>)
    \o (IF ArgMax(v) = 1 THEN <<"BCC">> ELSE << >>)
    \o (IF ArgMax(v) = 2 THEN <<"HCP">> ELSE << >>)

RECURSIVE Decode(_, _)
\* The list the decoding loop builds over the first k vectors of rows
Decode(rows, k) ==
    IF k = 0 THEN << >> ELSE Decode(rows, k - 1) \o Appended(rows[k])

\* np.concatenate((a, b, c), axis=1) of three one-column arrays of one length
ConcatenateColumns(a, b, c) == [i \in DOMAIN a |-> <<a[i], b[i], c[i]>>]

\* The prediction cell of the classification notebook: it stacks the labels
\* and the predictions of the two partitions, decodes both and puts them
\* beside the first column of df.  The loop raises when a prediction has no
\* label row, np.concatenate when the three columns differ in length.
PredictClassification ==
    LET train_predictions == Predict(weights, train_values)
        stacked == Concatenate(train_predictions, Predict(weights, test_values))
        labels == Concatenate(train_labels, test_labels)
        outputs == [i \in DOMAIN stacked |-> Probabilities(stacked[i])]
        atomic_number_array == ColumnList(df, df.columns[1])
    IN  /\ test_predictions' = Predict(weights, test_values)
        /\ all_labels' = labels
        /\ predictions' = stacked
        /\ calls' = calls \o <<Call("predict", train_values), Call("predict", test_values)>>
        /\ IF Len(labels) < Len(stacked) \/ Len(atomic_number_array) # Len(stacked)
           THEN /\ pc' = "error"
                /\ plot_table' = plot_table
           ELSE /\ pc' = "bars"
                /\ plot_table' =
                     ConcatenateColumns(atomic_number_array,
                                        Decode(labels, Len(stacked)),
                                        Decode(outputs, Len(stacked)))
        /\ UNCHANGED <<elements, all_values, df, csv, weights>>

PredictCell ==
    /\ pc = "predict"
    /\ CASE nb = "linreg" -> RegressionCall
         [] nb = "neural" -> PredictNeural
         [] OTHER -> PredictClassification
    /\ UNCHANGED <<config, parts, init_weights, epoch, history, printed, stop_training,
                   updates, io, saved, scores, class_prediction, sort_order, figure, run, prev>>

\* np.argsort(v): the 0-based positions of v in increasing order of value
ArgSort(v) ==
    CHOOSE p \in Permutations0(Len(v)) :
        \A i, j \in 1 .. Len(v) :
            i < j => \/ v[p[i] + 1].v < v[p[j] + 1].v
                     \/ v[p[i] + 1].v = v[p[j] + 1].v /\ p[i] < p[j]

\* The cell between the result table and the chart of the classification
\* notebook: the three per-class lists of probabilities, and `order`, which
\* the commented-out lines would have used.
BarsCell ==
    /\ pc = "bars"
    /\ class_prediction' =
         [k \in 1 .. 3 |->
            [item \in 1 .. Len(predictions) |->
                [prediction |-> predictions[item], class |-> k]]]
    /\ sort_order' = ArgSort([r \in DOMAIN df.rows |-> df.rows[r][1]])
    /\ pc' = "plot"
    /\ UNCHANGED <<config, data, parts, net, log, saved, scores, test_predictions,
                   predictions, plot_table, figure, run, prev>>

\* x_train.reshape(1,-1).tolist()[0]: a one-column array as a list
Flatten(rows) == [i \in DOMAIN rows |-> rows[i][1]]

\* go.Scatter(x=..., y=..., text=..., name=...) / go.Bar(...)
Trace(name, x, y, text) == [name |-> name, x |-> x, y |-> y, text |-> text]

\* [_ for _ in elements if _ in members]
ElementsIn(members) == SelectSeq(elements, LAMBDA e : e \in Range(members))

RECURSIVE BarHeights(_, _, _)
\* [pred[_] for _ in range(k) if elements[_] in members], k = len(pred)
BarHeights(pred, members, k) ==
    IF k = 0 THEN << >>
    ELSE BarHeights(pred, members, k - 1)
         \o (IF elements[k] \in Range(members) THEN <<pred[k]>> ELSE << >>)

\* ['*' if _ in elements[-7:] else None for _ in the elements of the panel]
Stars(members) ==
    [i \in DOMAIN ElementsIn(members) |->
        IF ElementsIn(members)[i] \in Range(SliceFrom(elements, 0 - testing_count))
        THEN "*" ELSE "None"]

\* The three bars of one panel of the classification chart; the bar of the
\* panel's own class carries the stars.
Panel(members, own) ==
    [k \in 1 .. 3 |->
        Trace(<<"FCC", "BCC", "HCP">>[k], ElementsIn(members),
              BarHeights(class_prediction[k], members, Len(class_prediction[k])),
              IF k = own THEN Stars(members) ELSE << >>)]

\* trace0, trace1, trace2 of the neural notebook
ScatterNeural ==
    << Trace("Young's Modulus (Training)", all_labels, predictions, elements),
       Trace("Young's Modulus (Testing)", test_labels, test_predictions, labeled_elements),
       Trace("Match", <<0, 600>>, <<0, 600>>, << >>) >>

\* plot(melt_train, melt_test, young_train, young_test, ..., predictions)
ScatterLinreg ==
    << Trace("Training Data", Flatten(train_values), Flatten(train_labels), << >>),
       Trace("Testing Data", Flatten(test_values), Flatten(test_labels), << >>),
       Trace("Model", Flatten(train_values) \o Flatten(test_values), predictions, << >>) >>

\* The chart cell.  The list comprehensions of the classification chart
\* index `elements` by the positions of the stacked predictions and raise
\* when there are more predictions than elements.
PlotCell ==
    /\ pc = "plot"
    /\ IF nb = "classification" /\ Len(predictions) > Len(elements)
       THEN /\ pc' = "error"
            /\ figure' = figure
       ELSE /\ pc' = "done"
            /\ figure' =
                 CASE nb = "neural" -> ScatterNeural
                   [] nb = "linreg" -> ScatterLinreg
                   [] OTHER -> Panel(fcc_elements(nb), 1) \o Panel(bcc_elements(nb), 2)
                               \o Panel(hcp_elements(nb), 3)
    /\ UNCHANGED <<config, data, parts, net, log, saved, scores, test_predictions,
                   predictions, plot_table, class_prediction, sort_order, run, prev>>

\* The entities of the two partitions, by the element list of the run.
TrainEntities == SliceTo(elements, training_count)

TestEntities == SliceFrom(elements, 0 - testing_count)

\* Restart the kernel and run the notebook again: nothing of the first run
\* is kept by the program; prev records it for the comparison.
Restart ==
    /\ pc \in {"done", "error"}
    /\ run = 1
    /\ run' = 2
    /\ prev' = [valid |-> TRUE, train |-> TrainEntities, test |-> TestEntities,
                init_weights |-> init_weights, history |-> history]
    /\ elements' = << >> /\ all_values' = << >> /\ all_labels' = << >>
    /\ df' = NoFrame /\ csv' = NoFrame
    /\ train_values' = << >> /\ test_values' = << >>
    /\ train_labels' = << >> /\ test_labels' = << >>
    /\ labeled_elements' = << >> /\ mean' = << >> /\ std' = << >>
    /\ init_weights' = << >> /\ weights' = << >> /\ epoch' = 0
    /\ history' = NewHistory(nb) /\ printed' = << >> /\ stop_training' = FALSE
    /\ calls' = << >> /\ updates' = << >> /\ io' = << >>
    /\ saved' = << >> /\ scores' = << >>
    /\ test_predictions' = << >> /\ predictions' = << >> /\ figure' = << >>
    /\ plot_table' = << >> /\ class_prediction' = << >> /\ sort_order' = << >>
    /\ pc' = "import"
    /\ UNCHANGED config

Next ==
    \/ ImportCell
    \/ BuildCell
    \/ PartitionCell
    \/ PartitionCellAgain
    \/ DefineModelCell
    \/ FitEpoch
    \/ FitReturn
    \/ SaveCell
    \/ EvaluateCell
    \/ PredictCell
    \/ BarsCell
    \/ PlotCell
    \/ Restart

\* Every value known; every row permutation and every split of the rows.
Init == InitWith(Notebooks, [n \in Notebooks |-> {BaseDb}],
                 [n \in Notebooks |-> IF n = "neural" THEN Permutations0(Len(ElementList(n)))
                                      ELSE {DefaultOrder(n)}],
                 [n \in Notebooks |-> Counts(n)])

Spec == Init /\ [][Next]_vars

\* Up to MaxMissing answers missing; the cell as written.
InitBuild == InitWith({"classification", "neural"},
                      [n \in Notebooks |-> DbMissing(n)],
                      [n \in Notebooks |-> {DefaultOrder(n)}],
                      [n \in Notebooks |-> DefaultCounts(n)])

SpecBuild == InitBuild /\ [][Next]_vars

\* One column drawn freely; every split of the rows.
InitNorm == InitWith({"classification", "neural"},
                     [n \in Notebooks |-> DbColumn(n)],
                     [n \in Notebooks |-> {DefaultOrder(n)}],
                     [n \in Notebooks |-> Counts(n)])

SpecNorm == InitNorm /\ [][Next]_vars

\* One-column arrays of n rows, n up to MaxRows.
ColumnArrays ==
    {[i \in 1 .. n |-> <<Num(base + i)>>] : n \in 0 .. MaxRows, base \in 0 .. 1}

\* An array of one row and two columns.
WideArray == << <<Num(1), Num(2)>> >>

\* The next call of regression in the notebook: the same x_train and x_test
\* (the melting points) with other y_train and y_test.
RegressionAgain ==
    /\ pc \in {"done", "error"}
    /\ train_labels' \in ColumnArrays
    /\ test_labels' \in ColumnArrays
    /\ calls' = << >>
    /\ pc' = "predict"
    /\ UNCHANGED <<config, data, train_values, test_values, labeled_elements, mean, std,
                   net, updates, io, post, run, prev>>

\* regression as a function: a kernel in which only its four arguments are
\* defined, each drawn freely, x_test possibly of another width.
InitRegression ==
    /\ nb = "linreg"
    /\ db = BaseDb
    /\ order = DefaultOrder(nb)
    /\ \E c \in DefaultCounts(nb) : training_count = c[1] /\ testing_count = c[2]
    /\ elements = << >> /\ all_values = << >> /\ all_labels = << >>
    /\ df = NoFrame /\ csv = NoFrame
    /\ train_values \in ColumnArrays
    /\ test_values \in ColumnArrays \cup {WideArray}
    /\ train_labels \in ColumnArrays
    /\ test_labels \in ColumnArrays
    /\ labeled_elements = << >> /\ mean = << >> /\ std = << >>
    /\ init_weights = << >> /\ weights = << >> /\ epoch = 0
    /\ history = NewHistory(nb) /\ printed = << >> /\ stop_training = FALSE
    /\ calls = << >> /\ updates = << >> /\ io = << >>
    /\ saved = << >> /\ scores = << >>
    /\ test_predictions = << >> /\ predictions = << >> /\ figure = << >>
    /\ plot_table = << >> /\ class_prediction = << >> /\ sort_order = << >>
    /\ pc = "predict"
    /\ run = 1
    /\ prev = NoPrev(nb)

NextRegression ==
    \/ PredictCell
    \/ PlotCell
    \/ RegressionAgain

SpecRegression == InitRegression /\ [][NextRegression]_vars

(***************************************************************************)
(* Properties.                                                             *)
(***************************************************************************)
\* The partition cell has run in the current run.
\* fit has returned in the current run of a network notebook.
AfterFit == {"save", "evaluate", "predict", "bars", "plot", "done"}

Partitioned == pc \in {"model", "fit", "error"} \cup AfterFit

Network == nb \in {"classification", "neural"}

\* The 0-based row positions the two slices take of a table of n rows.
TrainPositions == Range(SliceTo(Arange(Len(all_values)), training_count))

TestPositions == Range(SliceFrom(Arange(Len(all_values)), 0 - testing_count))

SlicesAsCounted ==
    /\ Len(train_values) = training_count
    /\ Len(train_labels) = training_count
    /\ Len(test_values) = testing_count
    /\ Len(test_labels) = testing_count
    /\ TrainPositions \cap TestPositions = {}

\* C1 as stated: for every training_count >= 0 and testing_count >= 0 with
\* training_count + testing_count <= row count, the training partition has
\* exactly training_count rows, the testing partition exactly testing_count
\* rows, and no row is in both.
C1_SlicesForAllCounts == Partitioned => SlicesAsCounted

\* C1 amended: for every training_count >= 0 and testing_count >= 1 with
\* training_count + testing_count <= row count, the training partition is the
\* first training_count rows, the testing partition the last testing_count
\* rows, and no row is in both.  (With testing_count = 0 the slice
\* rows[-0:] is the whole table.)
C1_SlicesForPositiveTestCount ==
    (Partitioned /\ testing_count >= 1) => SlicesAsCounted

\* A split that leaves a row between the two partitions.
C1_Witness ==
    /\ Partitioned
    /\ training_count = 2 /\ testing_count = 1
    /\ Len(train_values) = 2 /\ Len(test_values) = 1
    /\ Len(all_values) = 4

\* Values a looked-up cell of a testing row could have had instead.
AltValues == {NaN, Num(Unit), Num(14 * Unit)}

\* all_values with the cell (r, c) replaced by v
WithCell(r, c, v) == [all_values EXCEPT ![r][c] = v]

\* C2: when the partition cell has run, the per-feature mean and standard
\* deviation are those of the training rows alone: whatever value a cell of
\* a row outside the training slice has, the statistics and the normalised
\* training rows are the same, and the testing rows are rescaled with these
\* same statistics.
C2_StatisticsFromTrainingRows ==
    (pc = "model" /\ Network) =>
        /\ \A r \in (training_count + 1) .. Len(all_values) :
             \A c \in 1 .. Len(df.columns) : \A v \in AltValues :
                /\ Statistics(WithCell(r, c, v), training_count,
                              Len(df.columns), nb # "neural")
                     = [mean |-> mean, std |-> std]
                /\ ScaleRows(SliceTo(WithCell(r, c, v), training_count), mean, std)
                     = train_values
        /\ test_values = ScaleRows(SliceFrom(all_values, 0 - testing_count), mean, std)

\* Three training rows with finite scores, and a testing row whose
\* evaporation_heat differs from every training row's.
C2_Witness ==
    /\ Partitioned /\ nb = "neural"
    /\ training_count = 3 /\ testing_count = 1
    /\ \A r \in 1 .. 3 : train_values[r][2].cls = "finite"
    /\ \A r \in 1 .. 3 : all_values[4][2] # all_values[r][2]
    /\ test_values[1][2].cls = "finite"

\* The cell of row r and column col right after the builder cell: in the
\* frame, or in the label list for the column the neural notebook drops.
BuiltCell(r, col) ==
    IF col \in Range(df.columns) THEN df.rows[r][GetLoc(df, col)] ELSE all_labels[r]

\* C3: when the builder cell has finished, every cell named by a patch
\* (the element of that atomic number, that property) holds the patched
\* value, whether the lookup gave a number or nothing.
C3_PatchesTakePrecedence ==
    (pc = "partition" /\ Network) =>
        \A k \in DOMAIN PatchList(nb) : \A r \in DOMAIN elements :
            AtomicNumber(elements[r]) = PatchList(nb)[k].z =>
                BuiltCell(r, PatchList(nb)[k].col) = Num(PatchList(nb)[k].value)

\* The lookup gave a number for a patched cell and the patch replaced it.
C3_Witness ==
    /\ pc = "partition" /\ nb = "neural"
    /\ ~Lookup(db, "pymatgen", "Ge", "bulk_modulus").nan
    /\ Lookup(db, "pymatgen", "Ge", "bulk_modulus") # Num(772)
    /\ \E r \in DOMAIN elements :
          elements[r] = "Ge" /\ BuiltCell(r, "bulk_modulus") = Num(772)
    /\ Lookup(db, "pymatgen", "Ge", "youngs_modulus").nan
    /\ \E r \in DOMAIN elements :
          elements[r] = "Ge" /\ BuiltCell(r, "youngs_modulus") = Num(1027)

\* C4 as stated: a lookup that returns a missing value for a pair that no
\* patch names halts the pipeline before normalisation and before fit; no
\* table with a missing value is normalised, and no missing value is in an
\* array passed to fit.
C4_MissingValueHalts ==
    (Network /\ pc \in {"model", "fit"} \cup AfterFit) =>
        /\ \A r \in DOMAIN df.rows : \A c \in DOMAIN df.rows[r] : ~df.rows[r][c].nan
        /\ \A r \in DOMAIN train_values : \A c \in DOMAIN train_values[r] :
              train_values[r][c].cls # "nan"

\* Column c holds one and the same number in every training row.
ConstantTrainingColumn(c) ==
    /\ training_count >= 1
    /\ \A r \in 1 .. training_count :
          ~all_values[r][c].nan /\ all_values[r][c] = all_values[1][c]

\* C5 as stated: a feature column with the same value in every training row
\* never gets a finite normalised value, in a training row or in a testing
\* row: every entry of it is a non-finite marker (or the cell fails).
C5_ZeroVarianceNeverFinite ==
    (Partitioned /\ Network) =>
        \A c \in 1 .. Len(df.columns) :
            ConstantTrainingColumn(c) =>
                /\ \A r \in DOMAIN train_values : train_values[r][c].cls # "finite"
                /\ \A r \in DOMAIN test_values : test_values[r][c].cls # "finite"

\* What identifies the entity in a feature row: the first column, as a float.
ExpectedKey(e) ==
    IF nb = "linreg" THEN ToFloat(Lookup(db, "mendeleev", e, "melting_point"))
    ELSE ToFloat(Num(AtomicNumber(e)))

\* The label of entity e: its Young's modulus (the patched one where a patch
\* names it), or the one-hot code of its structure class.
ExpectedLabel(e) ==
    CASE nb = "linreg" -> <<ToFloat(Lookup(db, "pymatgen", e, "youngs_modulus"))>>
      [] nb = "neural" ->
           IF \E k \in DOMAIN PatchList(nb) :
                 /\ PatchList(nb)[k].z = AtomicNumber(e)
                 /\ PatchList(nb)[k].col = "youngs_modulus"
           THEN ToFloat(Num((CHOOSE q \in Range(PatchList(nb)) :
                               q.z = AtomicNumber(e) /\ q.col = "youngs_modulus").value))
           ELSE ToFloat(Lookup(db, "pymatgen", e, "youngs_modulus"))
      [] OTHER -> OneHot(nb, e)[1]

LabelsOf(entities) == [i \in DOMAIN entities |-> ExpectedLabel(entities[i])]

\* The feature rows `rows` are those of `entities`, in the same order.
RowsOf(rows, entities) ==
    /\ Len(rows) = Len(entities)
    /\ \A i \in DOMAIN entities :
          rows[i][1] = IF nb = "linreg" THEN ExpectedKey(entities[i])
                       ELSE Scale(ExpectedKey(entities[i]), mean[1], std[1])

\* The prediction cell of the classification notebook has replaced
\* all_labels by the stacked labels of the two partitions.
LabelsStacked == nb = "classification" /\ predictions # << >>

\* C6: after the partition cell, for every row permutation `order` of the
\* neural notebook and every shuffle of the other notebooks, the i-th
\* feature row, the i-th label and the i-th element name belong to the same
\* entity, in the whole table and in both partitions, and labeled_elements
\* names the entities of the testing rows in their order.
C6_RowsLabelsNamesAligned ==
    Partitioned =>
        /\ \A i \in DOMAIN elements :
              IF LabelsStacked THEN TRUE
              ELSE IF nb = "linreg"
              THEN /\ ToFloat(all_values[i][1]) = ExpectedKey(elements[i])
                   /\ <<ToFloat(all_values[i][2])>> = ExpectedLabel(elements[i])
              ELSE /\ all_values[i][1] = ExpectedKey(elements[i])
                   /\ all_labels[i] = ExpectedLabel(elements[i])
        /\ train_labels = LabelsOf(TrainEntities)
        /\ test_labels = LabelsOf(TestEntities)
        /\ RowsOf(train_values, TrainEntities)
        /\ RowsOf(test_values, TestEntities)
        /\ nb = "neural" => labeled_elements = TestEntities

\* A permutation that moves every row, with a testing partition of two.
C6_Witness ==
    /\ Partitioned /\ nb = "neural"
    /\ order = <<2, 3, 0, 1>>
    /\ training_count = 2 /\ testing_count = 2
    /\ elements = <<"Cs", "Ru", "Ag", "Ge">>
    /\ labeled_elements = <<"Ag", "Ge">>
    /\ test_labels[2] = ToFloat(Num(1027))

\* C7 as stated: in the second of two runs of the classification notebook
\* the initial weights of every layer are those of the first run, and so is
\* the training accuracy of every pass.
C7_SameSeedSameWeights ==
    (nb = "classification" /\ run = 2 /\ prev.valid /\ pc \in {"fit"} \cup AfterFit) =>
        /\ init_weights = prev.init_weights
        /\ pc = "done" => history.history["accuracy"] = prev.history.history["accuracy"]

\* The two runs agree on the entities of both partitions.
SamePartitions == TrainEntities = prev.train /\ TestEntities = prev.test

\* C8 as stated: in every notebook two runs put the same entities in the
\* training partition and the same entities in the testing partition.
C8_SamePartitionsEveryNotebook ==
    (run = 2 /\ prev.valid /\ Partitioned) => SamePartitions

\* C8 amended: in the classification and the neural notebook the row order
\* (seeded shuffle; the literal order) and the boundary are fixed, so two
\* runs give the same training and the same testing entities; in the
\* linear-regression notebook, whose shuffle is unseeded, two runs agree on
\* the sizes of the two partitions only.
C8_SamePartitionsSeededNotebooks ==
    (run = 2 /\ prev.valid /\ Partitioned) =>
        /\ Network => SamePartitions
        /\ Len(TrainEntities) = Len(prev.train)
        /\ Len(TestEntities) = Len(prev.test)

\* The second run of the classification notebook has partitioned the
\* shuffled list as the first did.
C8_Witness ==
    /\ run = 2 /\ prev.valid /\ Partitioned
    /\ nb = "classification"
    /\ training_count = 3 /\ testing_count = 1
    /\ prev.train = <<"Zr", "Ag", "Rb">> /\ prev.test = <<"Cs">>
    /\ TrainEntities = prev.train

\* C9: a fit call that runs makes exactly EPOCHS passes and then returns:
\* it cannot return before pass EPOCHS, nothing sets stop_training, it
\* cannot make a further pass after pass EPOCHS, and after k passes the
\* callback has reported 1, 2, ..., k.
C9_ExactlyEpochsPasses ==
    (Network /\ pc \in {"fit"} \cup AfterFit) =>
        /\ epoch \in 0 .. EPOCHS
        /\ ~stop_training
        /\ printed = [i \in 1 .. epoch |-> i]
        /\ pc = "fit" => /\ ENABLED FitEpoch <=> epoch < EPOCHS
                         /\ ENABLED FitReturn <=> epoch = EPOCHS
        /\ pc \in AfterFit => epoch = EPOCHS

\* fit has returned after EPOCHS passes in which the validation loss was
\* not below the training loss.
C9_Witness ==
    /\ pc = "done" /\ nb = "neural"
    /\ epoch = EPOCHS /\ Len(printed) = EPOCHS
    /\ \E k \in 1 .. EPOCHS : history.history["val_loss"][k] >= history.history["loss"][k]

RECURSIVE WeightsAfter(_)
\* The weights after k passes of the current fit call.
WeightsAfter(k) ==
    IF k = 0 THEN init_weights
    ELSE TrainStep(WeightsAfter(k - 1), FitRows(train_values))

\* The logs of pass k (k = 1 is the first pass).
LogsOfPass(k) ==
    EpochLogs(nb, WeightsAfter(k - 1), WeightsAfter(k),
              FitRows(train_values), ValRows(train_values))

\* C10: when fit has returned, the history holds for every reported metric,
\* training and validation, exactly EPOCHS values, the k-th being the metric
\* of pass k, and history.epoch is 0, 1, ..., EPOCHS-1.
C10_HistoryPerPass ==
    (Network /\ pc \in AfterFit) =>
        /\ history.epoch = [k \in 1 .. EPOCHS |-> k - 1]
        /\ DOMAIN history.history = TrainKeys(nb) \cup ValKeys(nb)
        /\ \A m \in DOMAIN history.history :
              /\ Len(history.history[m]) = EPOCHS
              /\ \A k \in 1 .. EPOCHS : history.history[m][k] = LogsOfPass(k)[m]

\* A returned fit whose recorded training loss changed between passes.
C10_Witness ==
    /\ pc = "done" /\ nb = "classification"
    /\ Len(history.history["val_accuracy"]) = EPOCHS
    /\ history.history["loss"][1] # history.history["loss"][EPOCHS]

\* The rows of the training partition that validation_split=0.1 leaves to
\* train on: the first int(0.9 * rows) of them.
NotHeldOut == SliceTo(train_values, (Len(train_values) * 9) \div 10)

\* The rows that validation_split=0.1 holds out: the rest.
HeldOut == SliceFrom(train_values, (Len(train_values) * 9) \div 10)

C12_ValidationFromTrainingOnly ==
    (Network /\ testing_count >= 1) =>
        \A i \in DOMAIN calls :
            /\ calls[i].op = "fit" =>
                  /\ calls[i].val = HeldOut
                  /\ Len(calls[i].val) = training_count - (training_count * 9) \div 10
                  /\ (Range(calls[i].x) \cup Range(calls[i].val)) \cap Range(test_values) = {}
            /\ Range(calls[i].x) \cap Range(test_values) # {} =>
                  /\ calls[i].op \in {"evaluate", "predict"}
                  /\ i > 1 /\ calls[1].op = "fit"
                  /\ epoch = EPOCHS /\ pc \in AfterFit \cup {"error"}

\* The neural notebook has trained with one row held out and has then
\* given the testing row to evaluate and to predict.
C12_Witness ==
    /\ pc = "done" /\ nb = "neural"
    /\ training_count = 3 /\ testing_count = 1
    /\ Len(calls) = 4
    /\ calls[1].op = "fit" /\ calls[1].val = <<train_values[3]>>
    /\ calls[2].op = "evaluate" /\ calls[2].x = test_values
    /\ calls[3].op = "predict" /\ calls[3].x = test_values

\* The prediction cell has run in the current run.
Predicted == pc \in {"bars", "plot", "done"}

\* C13: the predictions over the training features followed by the testing
\* features are one per row, the k-th that of the k-th row: first those of
\* the training rows in order, then those of the testing rows in order.
C13_PredictionsInRowOrder ==
    Predicted =>
        /\ Len(predictions) = Len(train_values) + Len(test_values)
        /\ testing_count >= 1 => Len(predictions) = training_count + testing_count
        /\ \A k \in 1 .. Len(train_values) :
              predictions[k] = PredictRow(weights, train_values[k])
        /\ \A k \in 1 .. Len(test_values) :
              predictions[Len(train_values) + k] = PredictRow(weights, test_values[k])

\* regression has predicted two training rows and one different testing row.
C13_Witness ==
    /\ pc = "done" /\ nb = "linreg"
    /\ training_count = 2 /\ testing_count = 1
    /\ Len(predictions) = 3
    /\ predictions[3].row = test_values[1]
    /\ test_values[1] # train_values[1] /\ test_values[1] # train_values[2]

\* C14: once fit has returned, saving, evaluate, predict and the charts leave
\* the parameters as fit left them (after EPOCHS passes from the initial
\* weights), and the file holds these parameters; the fitted line of the
\* linear-regression notebook is not changed by its chart either.
C14_ParametersFixedAfterFit ==
    /\ (Network /\ pc \in AfterFit) =>
          /\ weights = WeightsAfter(EPOCHS)
          /\ (nb = "neural" /\ pc # "save") => saved = [weights |-> weights]
    /\ (nb = "linreg" /\ pc \in {"plot", "done"}) =>
          weights = [x_train |-> train_values, y_train |-> train_labels]

\* Every later cell of the neural notebook has run after fit.
C14_Witness ==
    /\ pc = "done" /\ nb = "neural"
    /\ saved # << >> /\ Len(scores) = 1 /\ Len(calls) = 4
    /\ Len(predictions) = 4 /\ Len(figure) = 3
    /\ weights = WeightsAfter(EPOCHS)

\* The split covers the table, as the notebooks' 44 + 5 = 49 and 40 + 7 = 47.
SplitCoversTable ==
    testing_count >= 1 /\ training_count + testing_count = Len(elements)

\* The normalised feature row of entity e.
EntityRow(e) == ScaleRows(<<all_values[IndexOf(elements, e)]>>, mean, std)[1]

ClassOfName(name) == IndexOf(<<"FCC", "BCC", "HCP">>, name)

\* C15: in the charts of the network notebooks (with the split covering the
\* table) the i-th point of a series is the point of the entity it names:
\* in the scatter the i-th x is the true value and the i-th y the prediction
\* of the entity of the i-th hover text; in the bar chart the i-th bar of a
\* class is the predicted probability of that class for the i-th element
\* on the x axis.
C15_PointsCarryOwnNames ==
    (pc = "done" /\ Network /\ SplitCoversTable) =>
        IF nb = "neural"
        THEN \A t \in 1 .. 2 :
                /\ Len(figure[t].x) = Len(figure[t].text)
                /\ Len(figure[t].y) = Len(figure[t].text)
                /\ \A i \in DOMAIN figure[t].text :
                      /\ figure[t].x[i] = ExpectedLabel(figure[t].text[i])
                      /\ figure[t].y[i] = PredictRow(weights, EntityRow(figure[t].text[i]))
        ELSE \A t \in DOMAIN figure :
                /\ Len(figure[t].y) = Len(figure[t].x)
                /\ \A i \in DOMAIN figure[t].x :
                      figure[t].y[i] =
                          [prediction |-> PredictRow(weights, EntityRow(figure[t].x[i])),
                           class |-> ClassOfName(figure[t].name)]

\* The bcc panel of the classification chart: a training and a testing
\* element, in the order of the shuffled list.
C15_Witness ==
    /\ pc = "done" /\ nb = "classification"
    /\ training_count = 3 /\ testing_count = 1
    /\ Len(figure) = 9
    /\ figure[5].name = "BCC" /\ figure[5].x = <<"Rb", "Cs">>
    /\ figure[5].y[2].prediction.row = test_values[1]
    /\ figure[5].text = <<"None", "*">>

\* C16 as stated: every point of the series tagged training is an entity of
\* the training partition, every point of the series tagged testing an
\* entity of the testing partition, and no entity is drawn in both.
C16_SeriesCarryOwnPartition ==
    (pc = "done" /\ nb \in {"neural", "linreg"} /\ SplitCoversTable) =>
        IF nb = "neural"
        THEN /\ Range(figure[1].text) \subseteq Range(TrainEntities)
             /\ Range(figure[2].text) \subseteq Range(TestEntities)
             /\ Range(figure[1].text) \cap Range(figure[2].text) = {}
        ELSE /\ figure[1].x = [i \in DOMAIN TrainEntities |-> ExpectedKey(TrainEntities[i])]
             /\ figure[1].y = [i \in DOMAIN TrainEntities |-> ExpectedLabel(TrainEntities[i])[1]]
             /\ figure[2].x = [i \in DOMAIN TestEntities |-> ExpectedKey(TestEntities[i])]
             /\ figure[2].y = [i \in DOMAIN TestEntities |-> ExpectedLabel(TestEntities[i])[1]]

\* C17: normalisation leaves the labels alone: after the partition cell the
\* training and testing label arrays hold the dataset values of their
\* entities (the looked-up or patched Young's modulus, the class code), and
\* the true values given to the chart are these dataset values.
C17_LabelsNotNormalized ==
    /\ (Partitioned /\ Network) =>
          /\ train_labels = LabelsOf(TrainEntities)
          /\ test_labels = LabelsOf(TestEntities)
    /\ (pc = "done" /\ nb = "neural") =>
          /\ figure[1].x = LabelsOf(elements)
          /\ figure[2].x = LabelsOf(TestEntities)

\* The chart of the neural notebook shows the patched modulus of Ge, whose
\* feature row is normalised.
C17_Witness ==
    /\ pc = "done" /\ nb = "neural"
    /\ training_count = 3 /\ testing_count = 1
    /\ elements[2] = "Ge"
    /\ figure[1].x[2] = ToFloat(Num(1027))
    /\ train_labels[2] = ToFloat(Num(1027))
    /\ train_values[2][1].cls = "finite"

\* The assembled table: the snapshot of the neural notebook (written before
\* the label column is dropped), the data frame of the classification one.
AssembledTable == IF nb = "neural" THEN csv ELSE df

\* The collaborator a property is declared for.
SourceOf(n, col) ==
    IF col \in Range(querable_mendeleev(n)) THEN "mendeleev" ELSE "pymatgen"

\* The patch statements that name element e and column col.
PatchesOf(e, col) ==
    {k \in DOMAIN PatchList(nb) :
        PatchList(nb)[k].z = AtomicNumber(e) /\ PatchList(nb)[k].col = col}

\* The value the table is to hold for element e and property col.
ExpectedCell(e, col) ==
    IF PatchesOf(e, col) = {} THEN Lookup(db, SourceOf(nb, col), e, col)
    ELSE Num(PatchList(nb)[CHOOSE k \in PatchesOf(e, col) :
                              \A j \in PatchesOf(e, col) : j <= k].value)

\* C18: the assembled table has one row per element in the order of the
\* element list and one column per declared property, the mendeleev
\* properties first and then the pymatgen ones; the cell of row r and column
\* c is the answer (missing included) of the source declaring property c for
\* element r, or the value of the patch that overrides it; all_values holds
\* the answers themselves.
C18_TableByElementAndProperty ==
    (pc = "partition" /\ Network) =>
        /\ AssembledTable.columns = querable_mendeleev(nb) \o querable_pymatgen(nb)
        /\ Len(AssembledTable.rows) = Len(elements)
        /\ Len(all_values) = Len(elements)
        /\ \A r \in DOMAIN elements :
              /\ Len(AssembledTable.rows[r]) = Len(AssembledTable.columns)
              /\ \A c \in DOMAIN AssembledTable.columns :
                    /\ AssembledTable.rows[r][c] =
                          ExpectedCell(elements[r], AssembledTable.columns[c])
                    /\ all_values[r][c] =
                          Lookup(db, SourceOf(nb, AssembledTable.columns[c]),
                                 elements[r], AssembledTable.columns[c])

\* The snapshot of the neural notebook with a mendeleev answer, a pymatgen
\* answer, a missing answer and a patched cell.
C18_Witness ==
    /\ pc = "partition" /\ nb = "neural"
    /\ elements[1] = "Ag" /\ elements[2] = "Ge"
    /\ csv.columns[2] = "evaporation_heat" /\ csv.columns[3] = "bulk_modulus"
    /\ csv.rows[1][2] = Num(147)
    /\ csv.rows[1][3] = Num(354)
    /\ csv.rows[1][5] = NaN
    /\ db[<<"pymatgen", "Ge", "bulk_modulus">>] = NaN
    /\ csv.rows[2][3] = Num(772)

\* The class lists of the classification notebook.
ClassLists(n) == <<fcc_elements(n), bcc_elements(n), hcp_elements(n)>>

\* C19: in the classification notebook every element is given exactly one
\* one-hot label, whose 1 is at the position of the class list that holds
\* the element; the label matrix has as many rows as the feature matrix and
\* its row i is the label of element i of the (shuffled) element list.
C19_OneHotLabelPerElement ==
    (pc = "partition" /\ nb = "classification") =>
        /\ Len(all_labels) = Len(elements)
        /\ Len(all_labels) = Len(all_values)
        /\ Len(all_labels) = Len(df.rows)
        /\ \A i \in DOMAIN elements :
              /\ Len(all_labels[i]) = 3
              /\ \A k \in 1 .. 3 :
                    all_labels[i][k] =
                        IF elements[i] \in Range(ClassLists(nb)[k]) THEN 1 ELSE 0
              /\ Cardinality({k \in 1 .. 3 : all_labels[i][k] = 1}) = 1

\* The labels of the shuffled list, which differs from the declared one.
C19_Witness ==
    /\ pc = "partition" /\ nb = "classification"
    /\ elements # ElementList(nb)
    /\ Len(all_labels) = 4
    /\ \E i \in DOMAIN elements : elements[i] = "Zr" /\ all_labels[i] = <<0, 0, 1>>
    /\ \E i \in DOMAIN elements : elements[i] = "Rb" /\ all_labels[i] = <<0, 1, 0>>
    /\ all_labels # BuildLabels(nb, ElementList(nb), 4)

RECURSIVE SumTo(_, _)
\* The exact sum of the first k entries of a sequence of integers.
SumTo(s, k) == IF k = 0 THEN 0 ELSE SumTo(s, k - 1) + s[k]

Magnitude(i) == IF i < 0 THEN 0 - i ELSE i

\* Column c holds a number in every training row, and not the same number
\* in all of them: its training variance is defined and not zero.
VaryingTrainingColumn(c) ==
    /\ Len(train_values) >= 2
    /\ \A r \in DOMAIN train_values : ~all_values[r][c].nan
    /\ \E r \in DOMAIN train_values : all_values[r][c] # all_values[1][c]

\* The training entries of column c before normalisation, and the
\* numerators x - mean of its normalised entries (each entry is its
\* numerator over sqrt(ssq / n)).
TrainingColumn(c) == [r \in DOMAIN train_values |-> all_values[r][c].v]

Numerators(c) == [r \in DOMAIN train_values |-> train_values[r][c].num]

SumOfNumerators(c) == SumTo(Numerators(c), Len(train_values))

SumOfSquares(c) ==
    SumTo([r \in DOMAIN train_values |-> Numerators(c)[r] * Numerators(c)[r]],
          Len(train_values))

\* C20 as stated, with a tolerance of one half for "up to rounding": the
\* normalised entries of every training column of nonzero variance have a
\* mean within 1/2 of 0 (mean^2 = S^2 / (n * ssq) <= 1/4, S the sum of the
\* numerators) and a variance within 1/2 of 1
\* (variance = (n * Q - S^2) / (n * ssq), Q the sum of their squares).
C20_TrainingColumnsStandardized ==
    (pc = "model" /\ Network) =>
        \A c \in 1 .. Len(df.columns) :
            VaryingTrainingColumn(c) =>
                LET n == Len(train_values)
                    S == SumOfNumerators(c)
                    Q == SumOfSquares(c)
                IN  /\ \A r \in DOMAIN train_values : train_values[r][c].cls = "finite"
                    /\ 4 * S * S <= n * std[c].ssq
                    /\ 2 * (n * Q - S * S) >= n * std[c].ssq
                    /\ 2 * (n * Q - S * S) <= 3 * n * std[c].ssq

\* C20, amended: the normalised entries of a training column of nonzero
\* variance are (x - m) / s, with m the float that np.mean returns and
\* s^2 the mean square of the x - m over the n training rows.  Their mean
\* square is therefore 1; their mean is (sum(x) - n * m) / (n * s), which is
\* 0 (and their standard deviation 1) when m is the exact mean, and
\* otherwise is the rounding error of np.mean measured in units of s:
\* |sum(x) - n * m| is below n spacings of the floats at twice the column
\* sum.
C20_StandardizedUpToMeanRounding ==
    (pc = "model" /\ Network) =>
        \A c \in 1 .. Len(df.columns) :
            VaryingTrainingColumn(c) =>
                LET n == Len(train_values)
                    S == SumOfNumerators(c)
                    Q == SumOfSquares(c)
                    X == SumTo(TrainingColumn(c), n)
                IN  /\ \A r \in DOMAIN train_values :
                          /\ train_values[r][c].cls = "finite"
                          /\ train_values[r][c].num = all_values[r][c].v - mean[c].v
                          /\ train_values[r][c].ssq = std[c].ssq
                          /\ train_values[r][c].n = n
                    /\ std[c].ssq = Q /\ Q > 0
                    /\ S = X - n * mean[c].v
                    /\ Magnitude(S) < n * StepOf(2 * X, 1, 1)
                    /\ (n * mean[c].v = X) => (S = 0 /\ n * Q - S * S = n * std[c].ssq)

\* Three training rows with evaporation heats 13, 14, 14: np.mean returns
\* 13, the numerators are 0, 1, 1 (in float units), so that the normalised
\* mean is sqrt(2/3) and the variance 1/3.
C20_Witness ==
    /\ pc = "model" /\ nb = "neural"
    /\ training_count = 3
    /\ VaryingTrainingColumn(2)
    /\ TrainingColumn(2) = <<13 * Unit, 14 * Unit, 14 * Unit>>
    /\ mean[2] = Num(13 * Unit)
    /\ Numerators(2) = <<0, Unit, Unit>>
    /\ std[2].ssq = 2 * Unit * Unit

\* C23 as stated: the fit call of the classification notebook asks for 350
\* epochs.
C23_TrainedFor350Epochs ==
    (nb = "classification" /\ pc \in AfterFit) =>
        /\ calls[1].op = "fit"
        /\ calls[1].epochs = 350

\* The partition cell of the neural notebook has run: train_values exists.
NeuralPartitioned == nb = "neural" /\ pc \in {"model", "fit"} \cup AfterFit

C25_CountsCoverElementList ==
    LET l  == DeclaredElements(nb)
        tr == SliceTo(l, TrainingLiteral(nb))
        te == SliceFrom(l, 0 - TestingLiteral(nb))
    IN  /\ TrainingLiteral(nb) + TestingLiteral(nb) = Len(l)
        /\ Cardinality(Range(l)) = Len(l)
        /\ tr \o te = l
        /\ Range(tr) \cap Range(te) = {}
        /\ te = SubSeq(l, TrainingLiteral(nb) + 1, Len(l))
        /\ (Partitioned /\ SplitCoversTable) =>
              /\ TrainEntities \o TestEntities = elements
              /\ Range(TrainEntities) \cap Range(TestEntities) = {}

\* The classification notebook: 47 declared elements, and a sample split
\* that covers the sample.
C25_Witness ==
    /\ pc = "model" /\ nb = "classification"
    /\ Len(DeclaredElements(nb)) = 47
    /\ Len(SliceFrom(DeclaredElements(nb), 0 - TestingLiteral(nb))) = 7
    /\ training_count = 3 /\ testing_count = 1
    /\ TrainEntities \o TestEntities = elements

\* C30: in the neural notebook the labels are the youngs_modulus column of
\* the patched table (the snapshot), so that the label of an entity named by
\* a youngs_modulus patch is the patched value; the column is then dropped:
\* the other columns of the table are kept as they are, no feature column
\* is named youngs_modulus, and no column of the array that is normalised
\* and given to fit holds the labels.
C30_LabelsAfterPatchesColumnDropped ==
    /\ (nb = "neural" /\ pc = "partition") =>
          /\ all_labels = ColumnList(csv, "youngs_modulus")
          /\ \A r \in DOMAIN elements :
                all_labels[r] = ExpectedCell(elements[r], "youngs_modulus")
          /\ "youngs_modulus" \notin Range(df.columns)
          /\ Range(df.columns) = Range(csv.columns) \ {"youngs_modulus"}
          /\ \A c \in DOMAIN df.columns :
                ColumnList(df, df.columns[c]) = ColumnList(csv, df.columns[c])
    /\ (NeuralPartitioned /\ Len(all_values) >= 1) =>
          /\ "youngs_modulus" \notin Range(df.columns)
          /\ \A c \in 1 .. Len(df.columns) :
                /\ ColumnOf(all_values, c) # all_labels
                /\ ColumnOf(all_values, c) =
                      [r \in DOMAIN all_values |->
                          ToFloat(ExpectedCell(elements[r], df.columns[c]))]

\* The lookup has no Young's modulus for Ge; its label is the patched value
\* and its feature row has the four other columns.
C30_Witness ==
    /\ pc = "fit" /\ nb = "neural"
    /\ Lookup(db, "pymatgen", "Ge", "youngs_modulus").nan
    /\ elements[2] = "Ge"
    /\ training_count = 3
    /\ train_labels[2] = ToFloat(Num(1027))
    /\ Len(train_values[2]) = 4
    /\ csv.rows[2][4] = Num(1027)

\* The table as the lookups filled it, before the first patch statement.
LookupFrame == DataFrame(all_values, querable_values(nb))

\* The table after the first k patch statements of the builder cell.
AfterPatches(k) == ApplyPatches(LookupFrame, PatchList(nb), k)

\* The cells of table d that patch p names: the rows with its atomic number,
\* the column of its property.
PatchedCells(d, p) ==
    {rc \in (DOMAIN d.rows) \X (DOMAIN d.columns) :
        /\ d.rows[rc[1]][GetLoc(d, "atomic_number")] = Num(p.z)
        /\ d.columns[rc[2]] = p.col}

\* C28: when the builder cell has run, its k-th patch statement took the
\* table after the first k - 1 statements to one that has the same columns
\* and rows, the patched value in the cell of the element with the patch's
\* atomic number and the patch's property, and every other cell as before;
\* there is one such cell when the element is in the table, and when it is
\* not the statement left the table as it was.
C28_PatchChangesOneCell ==
    (pc = "partition" /\ Network) =>
        /\ AfterPatches(Len(PatchList(nb))) = AssembledTable
        /\ \A k \in DOMAIN PatchList(nb) :
              LET p      == PatchList(nb)[k]
                  before == AfterPatches(k - 1)
                  after  == AfterPatches(k)
                  cells  == PatchedCells(before, p)
              IN  /\ after.columns = before.columns
                  /\ DOMAIN after.rows = DOMAIN before.rows
                  /\ Cardinality(cells) =
                        IF \E r \in DOMAIN elements : AtomicNumber(elements[r]) = p.z
                        THEN 1 ELSE 0
                  /\ \A r \in DOMAIN before.rows : \A c \in DOMAIN before.columns :
                        after.rows[r][c] =
                            IF <<r, c>> \in cells THEN Num(p.value) ELSE before.rows[r][c]
                  /\ cells = {} => after = before

\* The classification sample: the Ru patch names no row and leaves the
\* table alone, the Zr patch replaces the looked-up bulk modulus of Zr.
C28_Witness ==
    /\ pc = "partition" /\ nb = "classification"
    /\ PatchList(nb)[3].z = 44 /\ PatchedCells(AfterPatches(2), PatchList(nb)[3]) = {}
    /\ AfterPatches(3) = AfterPatches(2)
    /\ PatchList(nb)[4].z = 40
    /\ Cardinality(PatchedCells(AfterPatches(3), PatchList(nb)[4])) = 1
    /\ AfterPatches(4) # AfterPatches(3)
    /\ ~Lookup(db, "pymatgen", "Zr", "bulk_modulus").nan


\* The file operations of the neural notebook once the builder cell ran, up
\* to the cell that is next.
FileOpsSoFar ==
    IF nb # "neural" \/ pc \in {"import", "build"} THEN << >>
    ELSE IF pc \in {"partition", "model", "reexecuted", "fit", "save"}
            \/ (pc = "error" /\ saved = << >>)
         THEN <<FileOp("to_csv", "~/tuto_data.csv")>>
         ELSE <<FileOp("to_csv", "~/tuto_data.csv"), FileOp("save", "~/model.h5")>>

\* C22: the neural notebook writes the snapshot once per run, after every
\* patch: its header is the declared property names in their order and its
\* cells are the patched values; the table in memory is what was written (less
\* the label column that is dropped next); the only file operations of a run
\* are that one to_csv and the one save of the model, so nothing reads the
\* snapshot or the model file back; the other notebooks touch no file.
C22_SnapshotWrittenOnceNeverRead ==
    /\ io = FileOpsSoFar
    /\ \A k \in DOMAIN io : io[k].op \in {"to_csv", "save"}
    /\ nb # "neural" => csv = NoFrame
    /\ (nb = "neural" /\ pc \notin {"import", "build"}) =>
          /\ csv.columns = querable_values(nb)
          /\ Len(csv.rows) = Len(ElementList(nb))
          /\ \A r \in DOMAIN csv.rows : \A c \in DOMAIN csv.columns :
                csv.rows[r][c] = ExpectedCell(ElementList(nb)[r], csv.columns[c])
          /\ df = DropColumn(csv, "youngs_modulus")

\* The neural notebook at its end: one to_csv, one save, the snapshot holding
\* a patched cell.
C22_Witness ==
    /\ nb = "neural" /\ pc = "done"
    /\ Len(io) = 2 /\ io[1].op = "to_csv" /\ io[2].op = "save"
    /\ \E r \in DOMAIN csv.rows : \E c \in DOMAIN csv.columns :
          \E k \in DOMAIN PatchList(nb) :
             /\ PatchList(nb)[k].col = csv.columns[c]
             /\ csv.rows[r][c] = Num(PatchList(nb)[k].value)


\* The name the result table gives class k (1-based).
StructureName(k) == <<"FCC", "BCC", "HCP">>[k]

\* C27: in the result table of the classification notebook the decoding loop
\* has appended exactly one true and one predicted label per row, the class
\* at the position of the greatest entry of the row's label and of its
\* prediction; row i holds the atomic number, the true structure and the
\* predicted structure of one and the same element, the i-th of the list.
C27_ResultTableRowsOfOneElement ==
    (nb = "classification" /\ Predicted) =>
        /\ Len(plot_table) = Len(elements)
        /\ Len(plot_table) = Len(predictions)
        /\ \A i \in DOMAIN plot_table :
              /\ Len(plot_table[i]) = 3
              /\ plot_table[i][1] = ExpectedCell(elements[i], "atomic_number")
              /\ \E k \in 1 .. 3 :
                    /\ elements[i] \in Range(ClassLists(nb)[k])
                    /\ plot_table[i][2] = StructureName(k)
              /\ predictions[i] = PredictRow(weights, EntityRow(elements[i]))
              /\ \E k \in 1 .. 3 :
                    /\ plot_table[i][3] = StructureName(k)
                    /\ \A j \in 1 .. 3 :
                          /\ Probabilities(predictions[i])[j]
                                <= Probabilities(predictions[i])[k]
                          /\ j < k => Probabilities(predictions[i])[j]
                                         < Probabilities(predictions[i])[k]

\* The table of a finished run: one element predicted as it is, another
\* predicted as something else, and two true structures present.
C27_Witness ==
    /\ nb = "classification" /\ pc = "done"
    /\ Len(plot_table) = Len(ElementList(nb))
    /\ \E i, j \in DOMAIN plot_table :
          /\ plot_table[i][2] = plot_table[i][3]
          /\ plot_table[j][2] # plot_table[j][3]
          /\ plot_table[i][2] # plot_table[j][2]
          /\ plot_table[i][1] # plot_table[j][1]


\* What one execution of the partition cell of the neural notebook leaves.
LabelsOnce == ReorderLabels(FloatVector(ColumnList(csv, "youngs_modulus")), order)

ElementsOnce == Take(ElementList(nb), order)

\* C29 as stated: after a second execution of the partition cell of the
\* neural notebook, for every row permutation `order`, the features, the
\* labels, the element list and labeled_elements are those one execution
\* leaves, and the normalisation was applied once.
C29_SecondExecutionChangesNothing ==
    pc = "reexecuted" =>
        /\ all_values = Take(FloatArray(df.rows), order)
        /\ train_values = ScaleRows(SliceTo(all_values, training_count), mean, std)
        /\ test_values = ScaleRows(SliceFrom(all_values, 0 - testing_count), mean, std)
        /\ all_labels = LabelsOnce
        /\ train_labels = SliceTo(LabelsOnce, training_count)
        /\ test_labels = SliceFrom(LabelsOnce, 0 - testing_count)
        /\ elements = ElementsOnce
        /\ labeled_elements = LabeledElements(ElementList(nb), order, testing_count)

\* What does hold after the second execution: the features are rebuilt from
\* df and normalised once, as after one execution.
C29_FeaturesRebuiltFromTable ==
    pc = "reexecuted" =>
        /\ all_values = Take(FloatArray(df.rows), order)
        /\ train_values = ScaleRows(SliceTo(all_values, training_count), mean, std)
        /\ test_values = ScaleRows(SliceFrom(all_values, 0 - testing_count), mean, std)


\* The four arguments of regression do not fit together: x and y of a
\* partition differ in length, or x_test has not the width the model is
\* fitted with.
ShapesDiffer ==
    \/ Len(train_values) # Len(train_labels)
    \/ Len(test_values) # Len(test_labels)
    \/ /\ Len(train_values) > 0
       /\ WidthOr(test_values, Len(train_values[1])) # Len(train_values[1])

\* C21 as stated: when the feature rows and the label rows differ in number,
\* or the feature width is not the one the model expects, regression ends in
\* an error and has attempted neither fit nor predict.
C21_ShapeErrorBeforeFitOrPredict ==
    (nb = "linreg" /\ ShapesDiffer /\ pc \in {"plot", "done", "error"}) =>
        /\ pc = "error"
        /\ \A i \in DOMAIN calls : calls[i].op \notin {"fit", "predict"}

\* What the function does on such arguments: it raises, but only inside or
\* after fit; the error is never a silent success.
C21_ShapeErrorRaisedByLibraries ==
    (nb = "linreg" /\ ShapesDiffer /\ pc \in {"plot", "done", "error"}) =>
        /\ pc = "error"
        /\ Len(calls) >= 1 /\ calls[1].op = "fit"


\* C26: the model a call of regression holds is the least-squares fit of
\* that call's x_train and y_train and of nothing else: whatever x_test and
\* y_test are, and whatever an earlier call was given and left behind; what
\* the call returns is that model's prediction of x_train followed by x_test.
C26_ModelOfOwnTrainingArguments ==
    /\ pc \in {"plot", "done"} =>
          /\ weights = LinearRegressionFit(train_values, train_labels)
          /\ predictions = Predict(LinearRegressionFit(train_values, train_labels),
                                   Concatenate(train_values, test_values))
    /\ (pc = "error" /\ Len(train_values) > 0 /\ Len(train_values) = Len(train_labels)) =>
          weights = LinearRegressionFit(train_values, train_labels)

\* A second call of regression has returned: the chart of the first call
\* shows other training labels, and the testing arrays are not empty.
C26_Witness ==
    /\ nb = "linreg" /\ pc = "plot"
    /\ figure # << >>
    /\ figure[1].y # Flatten(train_labels)
    /\ Len(figure[1].y) = Len(train_labels)
    /\ Len(test_values) > 0
    /\ weights = LinearRegressionFit(train_values, train_labels)

=============================================================================
